---------------------------- MODULE Spec2Model ----------------------------
(***************************************************************************)
(* A model of the blanko_quaternions crate: quaternions and dual           *)
(* quaternions over a shared Scalar, with exponential, logarithm, power,   *)
(* screw construction, sandwich transforms and sclerp.                     *)
(*                                                                         *)
(* The crate is a library of pure functions.  Its observable state is the  *)
(* call in progress: which operation was called (op), with which           *)
(* arguments (args), and what it returned (out).                           *)
(*                                                                         *)
(* Scalar.  The crate computes in IEEE-754 floats.  The model computes in  *)
(* exact real arithmetic extended with the IEEE special values NaN, +Inf   *)
(* and -Inf, so that the unguarded divisions of the code (0/0, x/0) give   *)
(* what the hardware gives.  Rounding and overflow are not modelled.  A    *)
(* finite scalar is a polynomial with rational coefficients in three       *)
(* positive transcendental symbols                                         *)
(*        A = atan(4/3)      L = ln(5)      P = pi                         *)
(* with integer (possibly negative) exponents.  cos A = 3/5 and            *)
(* sin A = 4/5, so sin_cos, atan, acos, exp and ln are exact on the        *)
(* arguments the model feeds them; an argument outside their tables has    *)
(* no value in the model and stops the evaluation instead of being         *)
(* guessed.                                                                *)
(***************************************************************************)
EXTENDS Integers, Sequences, FiniteSets, TLC

VARIABLES op, args, out

vars == <<op, args, out>>

-----------------------------------------------------------------------------
(* Rational numbers: pairs <<n, d>> with d > 0 and gcd(|n|, d) = 1.         *)

IAbs(x) == IF x < 0 THEN -x ELSE x

RECURSIVE GCD(_, _)
GCD(a, b) == IF b = 0 THEN a ELSE GCD(b, a % b)

RNorm(n, d) ==
    <<(IF d < 0 THEN -n ELSE n) \div GCD(IAbs(n), IAbs(d)),
      IAbs(d) \div GCD(IAbs(n), IAbs(d))>>

RNeg(x) == <<-x[1], x[2]>>

(* The sum over the common denominator l, the least common multiple.        *)
RAddOver(x, y, l) == RNorm(x[1] * (l \div x[2]) + y[1] * (l \div y[2]), l)

RAdd(x, y) == RAddOver(x, y, (x[2] \div GCD(x[2], y[2])) * y[2])

(* The common factors g1 of x[1], y[2] and g2 of y[1], x[2] are cancelled    *)
(* before the products are formed.                                          *)
RMulCancel(x, y, g1, g2) ==
    <<(x[1] \div g1) * (y[1] \div g2), (x[2] \div g2) * (y[2] \div g1)>>

RMul(x, y) ==
    IF x[1] = 0 \/ y[1] = 0 THEN <<0, 1>>
    ELSE RMulCancel(x, y, GCD(IAbs(x[1]), y[2]), GCD(IAbs(y[1]), x[2]))

RInv(x) == IF x[1] < 0 THEN <<-x[2], -x[1]>> ELSE <<x[2], x[1]>>

(* a/b < c/d for a, c >= 0 and b, d > 0, by continued fractions: no product *)
(* is formed, so no intermediate leaves the machine integers.               *)
RECURSIVE PosLess(_, _, _, _)
PosLess(a, b, c, d) ==
    IF a \div b # c \div d THEN a \div b < c \div d
    ELSE IF c % d = 0 THEN FALSE
    ELSE IF a % b = 0 THEN TRUE
    ELSE PosLess(d, c % d, b, a % b)

RLess(x, y) ==
    IF x[1] < 0
    THEN IF y[1] >= 0 THEN TRUE ELSE PosLess(-y[1], y[2], -x[1], x[2])
    ELSE IF y[1] <= 0 THEN FALSE ELSE PosLess(x[1], x[2], y[1], y[2])

RECURSIVE RPow(_, _)
RPow(x, n) ==
    IF n = 0 THEN <<1, 1>>
    ELSE IF n < 0 THEN RPow(RInv(x), -n)
    ELSE RMul(x, RPow(x, n - 1))

(* The integer square root, by bisection: lo * lo <= n < hi * hi.            *)
RECURSIVE ISqrtIn(_, _, _)
ISqrtIn(n, lo, hi) ==
    IF hi - lo <= 1 THEN lo
    ELSE IF ((lo + hi) \div 2) * ((lo + hi) \div 2) <= n
         THEN ISqrtIn(n, (lo + hi) \div 2, hi)
         ELSE ISqrtIn(n, lo, (lo + hi) \div 2)

ISqrt(n) == ISqrtIn(n, 0, IF n < 46340 THEN n + 1 ELSE 46340)

IsSquare(n) == n >= 0 /\ ISqrt(n) * ISqrt(n) = n

-----------------------------------------------------------------------------
(* Polynomials: finite sets of terms <<e, n, d>>, e = <<eA, eL, eP>> the    *)
(* exponents of A, L and P, n/d the non-zero coefficient; one term per e.   *)

E0 == <<0, 0, 0>>
EA == <<1, 0, 0>>
EL == <<0, 1, 0>>
EP == <<0, 0, 1>>

EAdd(e, f) == <<e[1] + f[1], e[2] + f[2], e[3] + f[3]>>
ENeg(e)    == <<-e[1], -e[2], -e[3]>>

Exps(p) == {t[1] : t \in p}

Term(e, c) == <<e, c[1], c[2]>>

TermCoef(t) == <<t[2], t[3]>>

Coef(p, e) ==
    IF e \in Exps(p) THEN TermCoef(CHOOSE t \in p : t[1] = e) ELSE <<0, 1>>

PNeg(p) == {<<t[1], -t[2], t[3]>> : t \in p}

PAdd(p, q) ==
    IF p = {} THEN q
    ELSE IF q = {} THEN p
    ELSE {t \in {Term(e, RAdd(Coef(p, e), Coef(q, e))) : e \in Exps(p) \cup Exps(q)} :
            t[2] # 0}

(* The sum of the coefficient products of a set of pairs of terms.          *)
RECURSIVE RSumProd(_)
RSumProd(S) ==
    IF S = {} THEN <<0, 1>>
    ELSE LET x == CHOOSE x \in S : TRUE
         IN  RAdd(RMul(TermCoef(x[1]), TermCoef(x[2])), RSumProd(S \ {x}))

PMul(p, q) ==
    IF p = {} \/ q = {} THEN {}
    ELSE {t \in {Term(e, RSumProd({st \in p \X q : EAdd(st[1][1], st[2][1]) = e})) :
                    e \in {EAdd(s[1], t[1]) : s \in p, t \in q}} :
            t[2] # 0}

PIsMono(p) == Cardinality(p) = 1

PMonoInv(p) == {Term(ENeg(t[1]), RInv(TermCoef(t))) : t \in p}

PRat(c) == IF c[1] = 0 THEN {} ELSE {Term(E0, c)}

PIsRat(p) == p = {} \/ (PIsMono(p) /\ Exps(p) = {E0})

PRatOf(p) == Coef(p, E0)

(* Rational enclosures of the symbols: 9/10 < A < 19/20, 8/5 < L < 13/8,    *)
(* 3 < P < 22/7.                                                            *)
SymLo == <<(<<9, 10>>), (<<8, 5>>), (<<3, 1>>)>>
SymHi == <<(<<19, 20>>), (<<13, 8>>), (<<22, 7>>)>>

(* A bound of the monomial of the first i symbols of A^e1 L^e2 P^e3: the    *)
(* lower one when lo.                                                       *)
RECURSIVE MonoBound(_, _, _)
MonoBound(e, lo, i) ==
    IF i = 0 THEN <<1, 1>>
    ELSE RMul(RPow(IF (e[i] >= 0) = lo THEN SymLo[i] ELSE SymHi[i], e[i]),
              MonoBound(e, lo, i - 1))

TermBound(t, lo) == RMul(TermCoef(t), MonoBound(t[1], (t[2] > 0) = lo, 3))

RECURSIVE PBound(_, _)
PBound(p, lo) ==
    IF p = {} THEN <<0, 1>>
    ELSE LET t == CHOOSE t \in p : TRUE
         IN  RAdd(TermBound(t, lo), PBound(p \ {t}, lo))

(* The sign of the real number a polynomial denotes.  It is decided by the  *)
(* coefficients when they agree in sign, by the enclosures otherwise; a     *)
(* polynomial whose enclosure straddles 0 has no sign in the model.         *)
PSign(p) ==
    CASE p = {}                         -> 0
      [] \A t \in p : t[2] > 0          -> 1
      [] \A t \in p : t[2] < 0          -> -1
      [] OTHER                          ->
            CHOOSE s \in {1, -1} : s * PBound(p, s = 1)[1] > 0

-----------------------------------------------------------------------------
(* Scalar: a finite polynomial, NaN, +Inf or -Inf.  The operations follow   *)
(* IEEE-754: x/0 is an infinity of x's sign, 0/0 and Inf-Inf and 0*Inf are  *)
(* NaN, every comparison with NaN is false.  The sign of zero is not        *)
(* modelled: every zero divides as +0.                                      *)

Fin(p)  == [k |-> "fin", p |-> p]
NaN     == [k |-> "nan", p |-> {}]
Inf(s)  == [k |-> "inf", p |-> PRat(<<s, 1>>)]

(* The infinity of the sign of p, NaN when p is zero (0 * Inf, 0 / 0); or   *)
(* the finite p.                                                            *)
Scalar(inf, p) ==
    CASE ~inf       -> Fin(p)
      [] p = {}     -> NaN
      [] OTHER      -> Inf(PSign(p))

IsFin(x) == x.k = "fin"
IsNaN(x) == x.k = "nan"
IsInf(x) == x.k = "inf"

Q(n, d) == Fin(PRat(RNorm(n, d)))
I(n)    == Q(n, 1)
Zero    == Fin({})
One     == Fin(PRat(<<1, 1>>))
Two     == Fin(PRat(<<2, 1>>))
Half    == Fin(PRat(<<1, 2>>))
SymA    == Fin({Term(EA, <<1, 1>>)})
SymL    == Fin({Term(EL, <<1, 1>>)})
PI      == Fin({Term(EP, <<1, 1>>)})

SSign(x) == IF IsNaN(x) THEN 0 ELSE PSign(x.p)

SNeg(x) == [k |-> x.k, p |-> PNeg(x.p)]

SAdd(x, y) ==
    CASE IsNaN(x) \/ IsNaN(y)   -> NaN
      [] IsInf(x) /\ IsInf(y)   -> IF x = y THEN x ELSE NaN
      [] IsInf(x)               -> x
      [] IsInf(y)               -> y
      [] OTHER                  -> Fin(PAdd(x.p, y.p))

SSub(x, y) == SAdd(x, SNeg(y))

SMul(x, y) ==
    CASE IsNaN(x) \/ IsNaN(y)   -> NaN
      [] OTHER                  -> Scalar(IsInf(x) \/ IsInf(y), PMul(x.p, y.p))

(* Division by a finite non-zero scalar is defined for a monomial divisor,  *)
(* the only kind the code divides by in the model's inputs.                 *)
SDiv(x, y) ==
    CASE IsNaN(x) \/ IsNaN(y)   -> NaN
      [] IsInf(x) /\ IsInf(y)   -> NaN
      [] IsInf(y)               -> Zero
      [] y.p = {}               -> Scalar(TRUE, x.p)
      [] PIsMono(y.p)           -> Scalar(IsInf(x), PMul(x.p, PMonoInv(y.p)))

(* x < y: the difference y - x is positive; Inf - Inf and NaN compare false. *)
SLess(x, y) == SSign(SSub(y, x)) > 0

(* f32::trunc: exact on a rational, and on any other value when its        *)
(* enclosure lies between two neighbouring integers.                        *)
ITrunc(r) == IF r[1] < 0 THEN -((-r[1]) \div r[2]) ELSE r[1] \div r[2]

STrunc(x) ==
    CASE ~IsFin(x)                                          -> x
      [] PIsRat(x.p)                                        -> I(ITrunc(PRatOf(x.p)))
      [] ITrunc(PBound(x.p, TRUE)) = ITrunc(PBound(x.p, FALSE))
                                                            -> I(ITrunc(PBound(x.p, TRUE)))

SFloor(x) == IF SLess(x, STrunc(x)) THEN SSub(STrunc(x), One) ELSE STrunc(x)

SCeil(x) == IF SLess(STrunc(x), x) THEN SAdd(STrunc(x), One) ELSE STrunc(x)

(* f32::round: half away from zero.                                         *)
SRound(x) == IF SLess(x, Zero) THEN STrunc(SSub(x, Half)) ELSE STrunc(SAdd(x, Half))

SAbs(x) == IF SLess(x, Zero) THEN SNeg(x) ELSE x

(* The % of the float type: x - trunc(x / y) * y, with the sign of x.       *)
SRem(x, y) ==
    CASE IsNaN(x) \/ IsNaN(y) \/ IsInf(x) \/ y = Zero -> NaN
      [] IsInf(y)                                     -> x
      [] OTHER                                        -> SSub(x, SMul(STrunc(SDiv(x, y)), y))

-----------------------------------------------------------------------------
(* The elementary functions of the float type, exact on their tables.       *)

(* The largest multiple of A in the tables of atan and acos.                *)
MaxMul == 3

(* The product of two complex numbers <<re, im>> with rational parts.       *)
CisMul(z, u) ==
    <<RAdd(RMul(z[1], u[1]), RNeg(RMul(z[2], u[2]))),
      RAdd(RMul(z[1], u[2]), RMul(z[2], u[1]))>>

(* <<cos(nA), sin(nA)>> as rationals: the powers of (3 + 4i)/5.             *)
RECURSIVE CisA(_)
CisA(n) ==
    IF n = 0 THEN <<(<<1, 1>>), (<<0, 1>>)>>
    ELSE IF n < 0 THEN CisMul(CisA(n + 1), <<(<<3, 5>>), (<<-4, 5>>)>>)
    ELSE CisMul(CisA(n - 1), <<(<<3, 5>>), (<<4, 5>>)>>)

(* <<cos, sin>> of nA + c P for c = <<m, 1>> or <<m, 2>>: cis(nA) turned by  *)
(* c[1] * (2 \div c[2]) quarter turns.                                      *)
Cis(n, c) ==
    CisMul(CisA(n),
           <<(<<(<<1, 1>>), (<<0, 1>>)>>), (<<(<<0, 1>>), (<<1, 1>>)>>),
             (<<(<<-1, 1>>), (<<0, 1>>)>>), (<<(<<0, 1>>), (<<-1, 1>>)>>)>>
             [((c[1] * (2 \div c[2])) % 4) + 1])

(* The polynomial nA + m(P/2).                                              *)
AngleForm(n, m) == PAdd(PMul(PRat(<<n, 1>>), SymA.p), PMul(PRat(RNorm(m, 2)), PI.p))

IsAngleForm(p) ==
    /\ Exps(p) \subseteq {EA, EP}
    /\ Coef(p, EA)[2] = 1
    /\ Coef(p, EP)[2] \in {1, 2}

(* f32::sin_cos: the pair (sin x, cos x).                                   *)
SinCos(x) ==
    CASE ~IsFin(x)          -> <<NaN, NaN>>
      [] IsAngleForm(x.p)   ->
            [i \in 1 .. 2 |-> Fin(PRat(Cis(Coef(x.p, EA)[1], Coef(x.p, EP))[3 - i]))]

(* The angles nA + m(P/2) of the tables, each <<n, m>> with its             *)
(* <<cos, sin>>.                                                            *)
TableAngles ==
    {<<a, Cis(a[1], RNorm(a[2], 2))>> : a \in (-MaxMul .. MaxMul) \X (-3 .. 3)}

(* The angle of the one table entry <<value, <<n, m>>>> found for an        *)
(* argument.                                                                *)
TableAngle(found) ==
    Fin(AngleForm((CHOOSE e \in found : TRUE)[2][1], (CHOOSE e \in found : TRUE)[2][2]))

(* The tangents of the table angles in (-pi/2, pi/2): P/2 - x and P/2 + x   *)
(* are positive.                                                            *)
AtanTable ==
    {<<RMul(z[2][2], RInv(z[2][1])), z[1]>> :
        z \in {y \in TableAngles :
                 /\ y[2][1][1] # 0
                 /\ \A s \in {1, -1} :
                        PSign(PAdd(AngleForm(0, 1), AngleForm(s * y[1][1], s * y[1][2]))) > 0}}

(* f32::atan: the angle in (-pi/2, pi/2) with the given tangent.            *)
Atan(x) ==
    CASE IsNaN(x)       -> NaN
      [] IsInf(x)       -> Fin(AngleForm(0, IF x = Inf(1) THEN 1 ELSE -1))
      [] PIsRat(x.p)    -> TableAngle({e \in AtanTable : e[1] = PRatOf(x.p)})

(* f32::atan2: the angle in (-pi, pi] of the point (x, y), finite y and x.  *)
Atan2(y, x) ==
    CASE SSign(x) > 0                   -> Atan(SDiv(y, x))
      [] SSign(x) < 0 /\ SSign(y) >= 0  -> SAdd(Atan(SDiv(y, x)), PI)
      [] SSign(x) < 0 /\ SSign(y) < 0   -> SSub(Atan(SDiv(y, x)), PI)
      [] SSign(x) = 0 /\ SSign(y) > 0   -> SDiv(PI, Two)
      [] SSign(x) = 0 /\ SSign(y) < 0   -> SNeg(SDiv(PI, Two))
      [] SSign(x) = 0 /\ SSign(y) = 0   -> Zero

(* The cosines of the table angles in [0, pi]: x and P - x are not          *)
(* negative.                                                                *)
AcosTable ==
    {<<z[2][1], z[1]>> :
        z \in {y \in TableAngles :
                 \A s \in {0, 1} :
                    PSign(PAdd(AngleForm(0, 2 * s),
                               AngleForm((1 - 2 * s) * y[1][1], (1 - 2 * s) * y[1][2]))) >= 0}}

(* f32::acos: the angle in [0, pi] with the given cosine; NaN outside       *)
(* [-1, 1].                                                                 *)

Acos(x) ==
    CASE IsNaN(x) \/ IsInf(x)   -> NaN
      [] PIsRat(x.p) /\ (RLess(<<1, 1>>, PRatOf(x.p)) \/ RLess(PRatOf(x.p), <<-1, 1>>)) -> NaN
      [] PIsRat(x.p)            -> TableAngle({e \in AcosTable : e[1] = PRatOf(x.p)})

(* The exponent n of a positive rational 5^n, and whether there is one.     *)
RECURSIVE Log5(_)
Log5(n) == IF n = 1 THEN 0 ELSE 1 + Log5(n \div 5)

RECURSIVE IsPow5(_)
IsPow5(n) == n = 1 \/ (n > 1 /\ n % 5 = 0 /\ IsPow5(n \div 5))

(* f32::exp, exact on the integer multiples of L = ln 5.                    *)
Exp(x) ==
    CASE IsNaN(x)       -> NaN
      [] IsInf(x)       -> IF x = Inf(1) THEN x ELSE Zero
      [] Exps(x.p) \subseteq {EL} /\ Coef(x.p, EL)[2] = 1 ->
            Fin(PRat(RPow(<<5, 1>>, Coef(x.p, EL)[1])))

(* f32::ln, exact on the powers of 5: -Inf at 0, NaN below.                 *)
Ln(x) ==
    CASE IsNaN(x)               -> NaN
      [] IsInf(x)               -> IF x = Inf(1) THEN x ELSE NaN
      [] x.p = {}               -> Inf(-1)
      [] SSign(x) < 0           -> NaN
      [] PIsRat(x.p) /\ IsPow5(PRatOf(x.p)[1]) /\ IsPow5(PRatOf(x.p)[2]) ->
            SMul(I(Log5(PRatOf(x.p)[1]) - Log5(PRatOf(x.p)[2])), SymL)

(* The square root of a monomial with even exponents and a square           *)
(* coefficient.                                                             *)
MonoSqrt(t) ==
    {Term(<<t[1][1] \div 2, t[1][2] \div 2, t[1][3] \div 2>>, <<ISqrt(t[2]), ISqrt(t[3])>>)}

MonoIsSquare(t) ==
    /\ \A i \in 1 .. 3 : t[1][i] % 2 = 0
    /\ IsSquare(t[2]) /\ IsSquare(t[3])

(* f32::sqrt: NaN below zero; exact on the squares the model can name.      *)
Sqrt(x) ==
    CASE IsNaN(x)       -> NaN
      [] IsInf(x)       -> IF x = Inf(1) THEN x ELSE NaN
      [] x.p = {}       -> Zero
      [] PIsMono(x.p) /\ (\E t \in x.p : t[2] < 0) -> NaN
      [] PIsMono(x.p) /\ (\E t \in x.p : MonoIsSquare(t)) ->
            Fin(MonoSqrt(CHOOSE t \in x.p : TRUE))

-----------------------------------------------------------------------------
(* The arithmetic of Scalar, written infix as in the source.                *)

a ++ b == SAdd(a, b)
a -- b == SSub(a, b)
a ** b == SMul(a, b)
a // b == SDiv(a, b)

(* Scalar::EPSILON of the default (f32) build: 2^-23.                       *)
EPSILON == Q(1, 8388608)

AllFinite(S) == \A x \in S : IsFin(x)

-----------------------------------------------------------------------------
(* angle.rs                                                                 *)

Angle_radians(angle) == [rad |-> angle, deg |-> angle ** (I(180) // PI)]

Angle_degrees(angle) == [deg |-> angle, rad |-> angle ** (PI // I(180))]

Angle_rad(self) == self.rad

Angle_mul(lhs, rhs) == [rad |-> lhs.rad ** rhs, deg |-> lhs.deg ** rhs]

(* The assigning form lhs /= rhs leaves the same value in lhs.              *)
Angle_div(lhs, rhs) == [rad |-> lhs.rad // rhs, deg |-> lhs.deg // rhs]

(* derive_more::Add, Sub, Neg: field by field.                              *)
Angle_add(lhs, rhs) == [rad |-> lhs.rad ++ rhs.rad, deg |-> lhs.deg ++ rhs.deg]

Angle_sub(lhs, rhs) == [rad |-> lhs.rad -- rhs.rad, deg |-> lhs.deg -- rhs.deg]

Angle_neg(self) == [rad |-> SNeg(self.rad), deg |-> SNeg(self.deg)]

(* derive_more::Rem on a struct takes a scalar on the right and applies %   *)
(* to every field.                                                          *)
Angle_rem(lhs, rhs) == [rad |-> SRem(lhs.rad, rhs), deg |-> SRem(lhs.deg, rhs)]

Angle_FULL    == [rad |-> Two ** PI, deg |-> I(360)]
Angle_HALF    == [rad |-> PI, deg |-> I(180)]
Angle_QUARTER == [rad |-> PI // Two, deg |-> I(90)]
Angle_EIGTH   == [rad |-> PI // I(4), deg |-> I(45)]
Angle_ZERO    == [rad |-> Zero, deg |-> Zero]

(* Built without angle_new_degrees.                                         *)
Angle_new(angle) == Angle_radians(angle)

Angle_min(self, angle) == IF SLess(self.deg, angle.deg) THEN self ELSE angle

Angle_max(self, angle) == IF SLess(angle.deg, self.deg) THEN self ELSE angle

Angle_clamp(self, min, max) ==
    IF SLess(max.deg, self.deg) THEN max
    ELSE IF SLess(self.deg, min.deg) THEN min
    ELSE self

Angle_abs(self) == [rad |-> SAbs(self.rad), deg |-> SAbs(self.deg)]

Angle_floor(self, angle) == Angle_mul(angle, STrunc(self.deg // angle.deg))

Angle_ceil(self, angle) ==
    Angle_mul(angle,
        IF SLess(self.deg // angle.deg, Zero)
        THEN SFloor(self.deg // angle.deg)
        ELSE SCeil(self.deg // angle.deg))

Angle_round(self, angle) == Angle_mul(angle, SRound(self.deg // angle.deg))

(* The number of degrees goes to Self::radians.                             *)
Angle_corrected(self) ==
    Angle_radians(
        IF SLess(self.deg, Zero)
        THEN I(360) ++ SRem(self.deg, I(360))
        ELSE SRem(self.deg, I(360)))

Angle_sign_corrected(self) ==
    Angle_degrees(
        IF SLess(self.deg, Zero)
        THEN (SFloor(self.deg // I(360)) ** I(-360)) ++ SRem(self.deg, I(360))
        ELSE self.deg)

Angle_range_corrected(self) == Angle_degrees(SRem(self.deg, I(360)))

Angle_sin_cos(self) == SinCos(self.rad)

-----------------------------------------------------------------------------
(* vector3.rs                                                               *)

Vector3(x, y, z) == [x |-> x, y |-> y, z |-> z]

Vector3_norm(self) ==
    Sqrt((self.x ** self.x) ++ (self.y ** self.y) ++ (self.z ** self.z))

Vector3_scale(lhs, rhs) ==
    [x |-> lhs.x ** rhs, y |-> lhs.y ** rhs, z |-> lhs.z ** rhs]

Vector3_normalize(self) == Vector3_scale(self, One // Vector3_norm(self))

Vector3_cross(self, other) ==
    [x |-> (self.y ** other.z) -- (other.y ** self.z),
     y |-> (self.z ** other.x) -- (other.z ** self.x),
     z |-> (self.x ** other.y) -- (other.x ** self.y)]

Vector3_add(lhs, rhs) ==
    [x |-> lhs.x ++ rhs.x, y |-> lhs.y ++ rhs.y, z |-> lhs.z ++ rhs.z]

Vector3_sub(lhs, rhs) ==
    [x |-> lhs.x -- rhs.x, y |-> lhs.y -- rhs.y, z |-> lhs.z -- rhs.z]

Vector3_into(value) == <<value.x, value.y, value.z>>

-----------------------------------------------------------------------------
(* quaternion.rs                                                            *)

Quaternion(w, i, j, k) == [w |-> w, i |-> i, j |-> j, k |-> k]

(* A conjugate that forgets k.                                              *)
Quaternion_conj_keeps_k(self) == [self EXCEPT !.i = SNeg(self.i), !.j = SNeg(self.j)]

Quaternion_conj(self) == Quaternion(self.w, SNeg(self.i), SNeg(self.j), SNeg(self.k))

Quaternion_norm(self) ==
    Sqrt((self.w ** self.w) ++ (self.i ** self.i) ++ (self.j ** self.j) ++ (self.k ** self.k))

(* Quaternion * Scalar and Scalar * Quaternion                              *)
Quaternion_scale(lhs, rhs) ==
    Quaternion(lhs.w ** rhs, lhs.i ** rhs, lhs.j ** rhs, lhs.k ** rhs)


(* derive_more::Add                                                         *)
Quaternion_add(lhs, rhs) ==
    Quaternion(lhs.w ++ rhs.w, lhs.i ++ rhs.i, lhs.j ++ rhs.j, lhs.k ++ rhs.k)

(* Quaternion * Quaternion: the Hamilton product                            *)
Quaternion_mul(lhs, rhs) ==
    [w |-> (lhs.w ** rhs.w) -- (lhs.i ** rhs.i) -- (lhs.j ** rhs.j) -- (lhs.k ** rhs.k),
     i |-> (lhs.w ** rhs.i) ++ (lhs.i ** rhs.w) ++ (lhs.j ** rhs.k) -- (lhs.k ** rhs.j),
     j |-> (lhs.w ** rhs.j) -- (lhs.i ** rhs.k) ++ (lhs.j ** rhs.w) ++ (lhs.k ** rhs.i),
     k |-> (lhs.w ** rhs.k) ++ (lhs.i ** rhs.j) -- (lhs.j ** rhs.i) ++ (lhs.k ** rhs.w)]

(* The struct literal closing exp, from the locals radius, angle and       *)
(* sc = (sin, cos).                                                         *)
Quaternion_exp_from(self, radius, angle, sc) ==
    [w |-> radius ** sc[2],
     i |-> ((radius ** sc[1]) ** self.i) // angle,
     j |-> ((radius ** sc[1]) ** self.j) // angle,
     k |-> ((radius ** sc[1]) ** self.k) // angle]

Quaternion_exp_angle(self, angle) ==
    Quaternion_exp_from(self, Exp(self.w), angle, SinCos(angle))

Quaternion_exp(self) ==
    Quaternion_exp_angle(self,
        Sqrt((self.i ** self.i) ++ (self.j ** self.j) ++ (self.k ** self.k)))

(* The struct literal closing log, from the locals norm, axis_norm, acos.   *)
Quaternion_log_from(self, norm, axis_norm, acos) ==
    [w |-> Ln(norm),
     i |-> (acos ** self.i) // axis_norm,
     j |-> (acos ** self.j) // axis_norm,
     k |-> (acos ** self.k) // axis_norm]

Quaternion_log_axis(self, axis_norm) ==
    Quaternion_log_from(self, Quaternion_norm(self), axis_norm, Acos(self.w // axis_norm))

Quaternion_log(self) ==
    Quaternion_log_axis(self,
        Sqrt((self.i ** self.i) ++ (self.j ** self.j) ++ (self.k ** self.k)))

Quaternion_powf(self, f) == Quaternion_exp(Quaternion_scale(Quaternion_log(self), f))

(* A transform_vector without the factor 2.0.                               *)
Quaternion_transform_vector_once(self, vector) ==
    Vector3_into(
        Vector3_add(Vector3(vector[1], vector[2], vector[3]),
            Vector3_add(
                Vector3_scale(Vector3_cross(Vector3(self.i, self.j, self.k),
                                            Vector3(vector[1], vector[2], vector[3])),
                              self.w),
                Vector3_cross(Vector3(self.i, self.j, self.k),
                              Vector3_cross(Vector3(self.i, self.j, self.k),
                                            Vector3(vector[1], vector[2], vector[3]))))))

(* vector + 2.0 * (vw*a + v.cross(&a)), with a = v.cross(&vector)           *)
Quaternion_transform_vector(self, vector) ==
    Vector3_into(
        Vector3_add(Vector3(vector[1], vector[2], vector[3]),
            Vector3_scale(
                Vector3_add(
                    Vector3_scale(Vector3_cross(Vector3(self.i, self.j, self.k),
                                                Vector3(vector[1], vector[2], vector[3])),
                                  self.w),
                    Vector3_cross(Vector3(self.i, self.j, self.k),
                                  Vector3_cross(Vector3(self.i, self.j, self.k),
                                                Vector3(vector[1], vector[2], vector[3])))),
                Two)))

(* s*vector + 2.0 * (vw*a + v.cross(&a)), from the local s                  *)
Quaternion_transform_vector_scaled_s(self, vector, s) ==
    Vector3_into(
        Vector3_add(Vector3_scale(Vector3(vector[1], vector[2], vector[3]), s),
            Vector3_scale(
                Vector3_add(
                    Vector3_scale(Vector3_cross(Vector3(self.i, self.j, self.k),
                                                Vector3(vector[1], vector[2], vector[3])),
                                  self.w),
                    Vector3_cross(Vector3(self.i, self.j, self.k),
                                  Vector3_cross(Vector3(self.i, self.j, self.k),
                                                Vector3(vector[1], vector[2], vector[3])))),
                Two)))

(* A scaled transform whose s is the norm, not its square.                  *)
Quaternion_transform_vector_scaled_by_norm(self, vector) ==
    Quaternion_transform_vector_scaled_s(self, vector, Quaternion_norm(self))

(* s = self.norm().powi(2)                                                  *)
Quaternion_transform_vector_scaled(self, vector) ==
    Quaternion_transform_vector_scaled_s(self, vector,
        Quaternion_norm(self) ** Quaternion_norm(self))

Quaternion_finite(q) == AllFinite({q.w, q.i, q.j, q.k})

(* PartialEq of Quaternion: component-wise ==, false on any NaN.            *)
Quaternion_eq(a, b) ==
    /\ ~(\E x \in {a.w, a.i, a.j, a.k} : IsNaN(x))
    /\ a = b

(* f32::powi with an exponent that is not negative.                         *)
RECURSIVE SPowi(_, _)
SPowi(x, n) == IF n = 0 THEN One ELSE x ** SPowi(x, n - 1)

-----------------------------------------------------------------------------
(* complex.rs                                                               *)

Complex(re, im) == [re |-> re, im |-> im]

Complex_conj(self) == Complex(self.re, SNeg(self.im))

Complex_norm(self) == Sqrt((self.re ** self.re) ++ (self.im ** self.im))

(* Complex * Complex                                                        *)
Complex_mul(lhs, rhs) ==
    Complex((lhs.re ** rhs.re) -- (lhs.im ** rhs.im),
            (lhs.im ** rhs.re) ++ (lhs.re ** rhs.im))

(* The struct literal closing sqrt and exp, from r and (sin, cos).          *)
Complex_polar(r, sc) == Complex(r ** sc[2], r ** sc[1])

(* x = self.im.atan2(self.re), (sin, cos) = x.sin_cos(), r = self.norm()    *)
Complex_sqrt(self) == Complex_polar(Complex_norm(self), SinCos(Atan2(self.im, self.re)))

(* derive_more::Add and derive_more::Sub: field by field.                   *)
Complex_add(lhs, rhs) == Complex(lhs.re ++ rhs.re, lhs.im ++ rhs.im)

Complex_sub(lhs, rhs) == Complex(lhs.re -- rhs.re, lhs.im -- rhs.im)

(* Complex * Scalar and Scalar * Complex                                    *)
Complex_scale(lhs, rhs) == Complex(lhs.re ** rhs, lhs.im ** rhs)

(* Scalar / Complex: lhs * rhs.conj() * (1.0 / rhs.norm().powi(2))          *)
Scalar_div_Complex(lhs, rhs) ==
    Complex_scale(Complex_scale(Complex_conj(rhs), lhs),
                  One // SPowi(Complex_norm(rhs), 2))

(* r = self.re.exp(), (sin, cos) = self.im.sin_cos()                        *)
Complex_exp(self) == Complex_polar(Exp(self.re), SinCos(self.im))

Complex_sin(self) ==
    LET x == Complex_exp(Complex(SNeg(self.im), self.re))
        y == Complex_sub(x, Scalar_div_Complex(One, x))
    IN  Complex(Half ** y.im, SNeg(Half) ** y.re)

Complex_cos(self) ==
    LET x == Complex_exp(Complex(SNeg(self.im), self.re))
        y == Complex_add(x, Scalar_div_Complex(One, x))
    IN  Complex(Half ** y.im, SNeg(Half) ** y.re)

(* Complex *= Complex: lhs.re is assigned first, lhs.im is computed after.  *)
Complex_mul_assign(lhs, rhs) ==
    Complex((lhs.re ** rhs.re) -- (lhs.im ** rhs.im),
            (lhs.im ** rhs.re) ++ (((lhs.re ** rhs.re) -- (lhs.im ** rhs.im)) ** rhs.im))

-----------------------------------------------------------------------------
(* util.rs                                                                  *)

(* Quaternion * Complex                                                     *)
Quaternion_mul_Complex(lhs, rhs) ==
    Quaternion((lhs.w ** rhs.re) -- (lhs.i ** rhs.im),
               (lhs.w ** rhs.im) ++ (lhs.i ** rhs.re),
               (lhs.j ** rhs.re) ++ (lhs.k ** rhs.im),
               (SNeg(lhs.j) ** rhs.im) ++ (lhs.k ** rhs.re))

(* Quaternion *= Complex: four assignments in the order w, i, j, k, each    *)
(* reading the fields as the assignments before it left them.               *)
Quaternion_mul_assign_Complex(lhs, rhs) ==
    LET w == (lhs.w ** rhs.re) -- (lhs.i ** rhs.im)
        i == (w ** rhs.im) ++ (lhs.i ** rhs.re)
        j == (lhs.j ** rhs.re) ++ (lhs.k ** rhs.im)
        k == (SNeg(j) ** rhs.im) ++ (lhs.k ** rhs.re)
    IN  Quaternion(w, i, j, k)

-----------------------------------------------------------------------------
(* dual_numbers.rs                                                          *)

DualNumber(re, du) == [re |-> re, du |-> du]

DualNumber_conj(self) == DualNumber(self.re, SNeg(self.du))

DualNumber_seminorm(self) == Sqrt(self.re ** self.re)

(* DualNumber * DualNumber                                                  *)
DualNumber_mul(lhs, rhs) ==
    DualNumber(lhs.re ** rhs.re, (lhs.re ** rhs.du) ++ (lhs.du ** rhs.re))

(* DualNumber *= DualNumber: lhs.re is assigned first, lhs.du reads it.     *)
DualNumber_mul_assign(lhs, rhs) ==
    DualNumber(lhs.re ** rhs.re, (lhs.du ** rhs.re) ++ ((lhs.re ** rhs.re) ** rhs.du))

(* DualNumber * Scalar and Scalar * DualNumber                              *)
DualNumber_scale(lhs, rhs) == DualNumber(lhs.re ** rhs, lhs.du ** rhs)

(* Scalar / DualNumber: lhs * rhs.conj() * (1.0 / rhs.seminorm().powi(2))   *)
Scalar_div_DualNumber(lhs, rhs) ==
    DualNumber_scale(DualNumber_scale(DualNumber_conj(rhs), lhs),
                     One // (DualNumber_seminorm(rhs) ** DualNumber_seminorm(rhs)))

(* The local d and the closing if, from the local p.                        *)
DualNumber_powi_p(self, i, p) ==
    IF i < 0
    THEN Scalar_div_DualNumber(One, DualNumber(p ** self.re, (I(i) ** p) ** self.du))
    ELSE DualNumber(p ** self.re, (I(i) ** p) ** self.du)

(* p = self.re.powi((i-1).max(0))                                           *)
DualNumber_powi(self, i) ==
    DualNumber_powi_p(self, i, SPowi(self.re, IF i - 1 > 0 THEN i - 1 ELSE 0))

-----------------------------------------------------------------------------
(* dual_quaternion.rs                                                       *)

DualQuaternion(w, i, j, k, ie, je, ke, we) ==
    [w |-> w, i |-> i, j |-> j, k |-> k, ie |-> ie, je |-> je, ke |-> ke, we |-> we]

DualQuaternion_ZERO == DualQuaternion(Zero, Zero, Zero, Zero, Zero, Zero, Zero, Zero)
DualQuaternion_ONE  == [DualQuaternion_ZERO EXCEPT !.w = One]

(* A conjugate that leaves the dual part as nconj does.                     *)
DualQuaternion_conj_as_nconj(self) ==
    [self EXCEPT !.i = SNeg(self.i), !.j = SNeg(self.j), !.k = SNeg(self.k),
                 !.we = SNeg(self.we)]

DualQuaternion_conj(self) ==
    [w  |-> self.w,
     i  |-> SNeg(self.i),
     j  |-> SNeg(self.j),
     k  |-> SNeg(self.k),
     ie |-> SNeg(self.ie),
     je |-> SNeg(self.je),
     ke |-> SNeg(self.ke),
     we |-> self.we]

(* A sandwich closed with conj where nconj belongs.                         *)
DualQuaternion_nconj_as_conj(self) == DualQuaternion_conj(self)

DualQuaternion_nconj(self) ==
    [w  |-> self.w,
     i  |-> SNeg(self.i),
     j  |-> SNeg(self.j),
     k  |-> SNeg(self.k),
     ie |-> self.ie,
     je |-> self.je,
     ke |-> self.ke,
     we |-> SNeg(self.we)]

(* An iconj that forgets the dual scalar.                                   *)
DualQuaternion_iconj_keeps_we(self) ==
    [self EXCEPT !.ie = SNeg(self.ie), !.je = SNeg(self.je), !.ke = SNeg(self.ke)]

DualQuaternion_iconj(self) ==
    [w  |-> self.w,
     i  |-> self.i,
     j  |-> self.j,
     k  |-> self.k,
     ie |-> SNeg(self.ie),
     je |-> SNeg(self.je),
     ke |-> SNeg(self.ke),
     we |-> SNeg(self.we)]

DualQuaternion_norm(self) ==
    Sqrt((self.w ** self.w) ++ (self.i ** self.i) ++ (self.j ** self.j) ++ (self.k ** self.k))

(* DualQuaternion * Scalar and Scalar * DualQuaternion                      *)
DualQuaternion_scale(lhs, rhs) ==
    [w  |-> rhs ** lhs.w,
     i  |-> rhs ** lhs.i,
     j  |-> rhs ** lhs.j,
     k  |-> rhs ** lhs.k,
     ie |-> rhs ** lhs.ie,
     je |-> rhs ** lhs.je,
     ke |-> rhs ** lhs.ke,
     we |-> rhs ** lhs.we]

(* DualQuaternion * DualQuaternion                                          *)
DualQuaternion_real(self) == Quaternion(self.w, self.i, self.j, self.k)
DualQuaternion_dual(self) == Quaternion(self.we, self.ie, self.je, self.ke)

(* The struct literal closing the product, from its real and dual parts.    *)
DualQuaternion_from(real, dual) ==
    DualQuaternion(real.w, real.i, real.j, real.k, dual.i, dual.j, dual.k, dual.w)

(* The product with its factors exchanged.                                  *)
DualQuaternion_mul_exchanged(lhs, rhs) ==
    DualQuaternion_from(
        Quaternion_mul(DualQuaternion_real(rhs), DualQuaternion_real(lhs)),
        Quaternion_add(Quaternion_mul(DualQuaternion_real(rhs), DualQuaternion_dual(lhs)),
                       Quaternion_mul(DualQuaternion_dual(rhs), DualQuaternion_real(lhs))))

DualQuaternion_mul(lhs, rhs) ==
    DualQuaternion_from(
        Quaternion_mul(DualQuaternion_real(lhs), DualQuaternion_real(rhs)),
        Quaternion_add(Quaternion_mul(DualQuaternion_real(lhs), DualQuaternion_dual(rhs)),
                       Quaternion_mul(DualQuaternion_dual(lhs), DualQuaternion_real(rhs))))

DualQuaternion_normalized(self) == DualQuaternion_scale(self, One // DualQuaternion_norm(self))

DualQuaternion_point(pos) ==
    DualQuaternion(One, Zero, Zero, Zero, pos[1], pos[2], pos[3], Zero)

(* The shadowing dir (normalized) and the moment computed from it.          *)
DualQuaternion_line_dir(pos, dir, n) ==
    DualQuaternion(Zero, dir[1], dir[2], dir[3],
        n ** ((pos[2] ** dir[3]) -- (dir[2] ** pos[3])),
        n ** ((pos[3] ** dir[1]) -- (dir[3] ** pos[1])),
        n ** ((pos[1] ** dir[2]) -- (dir[1] ** pos[2])),
        Zero)

DualQuaternion_line_n(pos, dir0, n) ==
    DualQuaternion_line_dir(pos, <<dir0[1] ** n, dir0[2] ** n, dir0[3] ** n>>, n)

DualQuaternion_line(pos, dir0) ==
    DualQuaternion_line_n(pos, dir0,
        One // Sqrt((dir0[1] ** dir0[1]) ++ (dir0[2] ** dir0[2]) ++ (dir0[3] ** dir0[3])))

(* The struct literal closing exp; sr is the common subterm sin/r.          *)
DualQuaternion_exp_from(self, t, cos, sr, tr) ==
    [w  |-> cos,
     i  |-> sr ** self.i,
     j  |-> sr ** self.j,
     k  |-> sr ** self.k,
     ie |-> (sr ** self.ie) ++ (tr ** self.i),
     je |-> (sr ** self.je) ++ (tr ** self.j),
     ke |-> (sr ** self.ke) ++ (tr ** self.k),
     we |-> SNeg(sr) ** t]

DualQuaternion_exp_at(self, r, t, sc) ==
    DualQuaternion_exp_from(self, t, sc[2], sc[1] // r,
        ((sc[2] // (r ** r)) -- (sc[1] // ((r ** r) ** r))) ** t)

(* An exponential that keeps the first-order term 1 + eps m of a generator  *)
(* below the threshold.                                                     *)
DualQuaternion_exp_r_first_order(self, r) ==
    IF SLess(r ** r, EPSILON)
    THEN [DualQuaternion_ONE EXCEPT !.ie = self.ie, !.je = self.je, !.ke = self.ke]
    ELSE DualQuaternion_exp_at(self, r,
            (self.i ** self.ie) ++ (self.j ** self.je) ++ (self.k ** self.ke),
            SinCos(r))

DualQuaternion_exp_r(self, r) ==
    IF SLess(r ** r, EPSILON) THEN DualQuaternion_ONE
    ELSE DualQuaternion_exp_at(self, r,
            (self.i ** self.ie) ++ (self.j ** self.je) ++ (self.k ** self.ke),
            SinCos(r))

DualQuaternion_exp(self) ==
    DualQuaternion_exp_r(self,
        Sqrt((self.i ** self.i) ++ (self.j ** self.j) ++ (self.k ** self.k)))

(* The generator dq of a screw, from the shadowing line, angle, distance.   *)
DualQuaternion_screw_dq(line, angle, distance) ==
    [w  |-> Zero,
     i  |-> line.i ** angle,
     j  |-> line.j ** angle,
     k  |-> line.k ** angle,
     ie |-> (line.ie ** angle) ++ (distance ** line.i),
     je |-> (line.je ** angle) ++ (distance ** line.j),
     ke |-> (line.ke ** angle) ++ (distance ** line.k),
     we |-> Zero]

DualQuaternion_screw(line0, angle0, distance0) ==
    DualQuaternion_exp(
        DualQuaternion_screw_dq(DualQuaternion_normalized(line0),
                                Half ** Angle_rad(angle0),
                                Half ** distance0))

DualQuaternion_rotor_from(sc, dir) ==
    DualQuaternion(sc[2], sc[1] ** dir.x, sc[1] ** dir.y, sc[1] ** dir.z, Zero, Zero, Zero, Zero)

DualQuaternion_rotor(angle, axis0) ==
    DualQuaternion_rotor_from(Angle_sin_cos(Angle_mul(angle, Half)),
        Vector3_normalize(Vector3(axis0[1], axis0[2], axis0[3])))

(* A translator that carries the whole translation in its dual part.       *)
DualQuaternion_translator_whole(translation) ==
    DualQuaternion(One, Zero, Zero, Zero,
                   translation[1], translation[2], translation[3], Zero)

DualQuaternion_translator(translation) ==
    DualQuaternion(One, Zero, Zero, Zero,
                   Half ** translation[1], Half ** translation[2], Half ** translation[3], Zero)

(* p + 2.0 * (vw*a + v.cross(&a) - mw*v)                                    *)
DualQuaternion_transform_point_a(v, vw, mw, p, a) ==
    Vector3_into(
        Vector3_add(p,
            Vector3_scale(
                Vector3_sub(Vector3_add(Vector3_scale(a, vw), Vector3_cross(v, a)),
                            Vector3_scale(v, mw)),
                Two)))

(* A transform_point that leaves out the translation: a = v.cross(&p).      *)
DualQuaternion_transform_point_about_origin(self, point) ==
    DualQuaternion_transform_point_a(
        Vector3(self.i, self.j, self.k), self.w, self.we,
        Vector3(point[1], point[2], point[3]),
        Vector3_cross(Vector3(self.i, self.j, self.k),
                      Vector3(point[1], point[2], point[3])))

DualQuaternion_transform_point(self, point) ==
    DualQuaternion_transform_point_a(
        Vector3(self.i, self.j, self.k), self.w, self.we,
        Vector3(point[1], point[2], point[3]),
        Vector3_add(Vector3_cross(Vector3(self.i, self.j, self.k),
                                  Vector3(point[1], point[2], point[3])),
                    Vector3(self.ie, self.je, self.ke)))

(* A transform_vector3 that turns the other way: -vw*a for vw*a.            *)
DualQuaternion_transform_vector3_clockwise(self, vector3) ==
    Vector3_into(
        Vector3_add(Vector3(vector3[1], vector3[2], vector3[3]),
            Vector3_scale(
                Vector3_sub(
                    Vector3_cross(Vector3(self.i, self.j, self.k),
                                  Vector3_cross(Vector3(self.i, self.j, self.k),
                                                Vector3(vector3[1], vector3[2], vector3[3]))),
                    Vector3_scale(Vector3_cross(Vector3(self.i, self.j, self.k),
                                                Vector3(vector3[1], vector3[2], vector3[3])),
                                  self.w)),
                Two)))

(* vector3 + 2.0 * (vw*a + v.cross(&a)), with a = v.cross(&vector3)         *)
DualQuaternion_transform_vector3(self, vector3) ==
    Vector3_into(
        Vector3_add(Vector3(vector3[1], vector3[2], vector3[3]),
            Vector3_scale(
                Vector3_add(
                    Vector3_scale(Vector3_cross(Vector3(self.i, self.j, self.k),
                                                Vector3(vector3[1], vector3[2], vector3[3])),
                                  self.w),
                    Vector3_cross(Vector3(self.i, self.j, self.k),
                                  Vector3_cross(Vector3(self.i, self.j, self.k),
                                                Vector3(vector3[1], vector3[2], vector3[3])))),
                Two)))

(* The struct literal closing transform_line, from the new lv and lm.       *)
DualQuaternion_transform_line_from(lv, lm) ==
    DualQuaternion(Zero, lv.x, lv.y, lv.z, lm.x, lm.y, lm.z, Zero)

(* A transform_line whose factor 2.0 takes the direction in as well.        *)
DualQuaternion_transform_line_doubled(lv, lm, v, m, vw, mw, a, d) ==
    DualQuaternion_transform_line_from(
        Vector3_scale(
            Vector3_add(lv, Vector3_add(Vector3_scale(a, vw), Vector3_cross(v, a))),
            Two),
        Vector3_add(lm,
            Vector3_scale(
                Vector3_add(
                    Vector3_add(
                        Vector3_add(Vector3_scale(a, mw), Vector3_scale(d, vw)),
                        Vector3_cross(v, d)),
                    Vector3_cross(m, a)),
                Two)))

(* A transform_line that turns the moment and forgets the translation.      *)
DualQuaternion_transform_line_turned(lv, lm, v, m, vw, mw, a, d) ==
    DualQuaternion_transform_line_from(
        Vector3_add(lv,
            Vector3_scale(Vector3_add(Vector3_scale(a, vw), Vector3_cross(v, a)), Two)),
        Vector3_add(lm,
            Vector3_scale(
                Vector3_add(Vector3_scale(Vector3_cross(v, lm), vw),
                            Vector3_cross(v, Vector3_cross(v, lm))),
                Two)))

(* lv + 2.0 * (vw*a + v.cross(&a)) and                                      *)
(* lm + 2.0 * (mw*a + vw*d + v.cross(&d) + m.cross(&a))                     *)
DualQuaternion_transform_line_ad(lv, lm, v, m, vw, mw, a, d) ==
    DualQuaternion_transform_line_from(
        Vector3_add(lv,
            Vector3_scale(Vector3_add(Vector3_scale(a, vw), Vector3_cross(v, a)), Two)),
        Vector3_add(lm,
            Vector3_scale(
                Vector3_add(
                    Vector3_add(
                        Vector3_add(Vector3_scale(a, mw), Vector3_scale(d, vw)),
                        Vector3_cross(v, d)),
                    Vector3_cross(m, a)),
                Two)))

(* The locals lv, lm, v, m, vw, mw, and a = v.cross(&lv), d = b + c.        *)
DualQuaternion_transform_line_vm(self, lv, lm, v, m) ==
    DualQuaternion_transform_line_ad(lv, lm, v, m, self.w, self.we,
        Vector3_cross(v, lv),
        Vector3_add(Vector3_cross(v, lm), Vector3_cross(m, lv)))

DualQuaternion_transform_line(self, line) ==
    DualQuaternion_transform_line_vm(self,
        Vector3(line.i, line.j, line.k), Vector3(line.ie, line.je, line.ke),
        Vector3(self.i, self.j, self.k), Vector3(self.ie, self.je, self.ke))

(* The struct literal closing log, from the locals a and tr.                *)
DualQuaternion_log_from(self, a, tr) ==
    [w  |-> Zero,
     i  |-> a ** self.i,
     j  |-> a ** self.j,
     k  |-> a ** self.k,
     ie |-> (a ** self.ie) ++ (tr ** self.i),
     je |-> (a ** self.je) ++ (tr ** self.j),
     ke |-> (a ** self.ke) ++ (tr ** self.k),
     we |-> Zero]

(* b = t / (r*r), tr = (w - a)*b - we                                       *)
DualQuaternion_log_a(self, r, t, a) ==
    DualQuaternion_log_from(self, a, ((self.w -- a) ** (t // (r ** r))) -- self.we)

(* a = (r/w).atan() / r                                                     *)
DualQuaternion_log_rt(self, r, t) ==
    DualQuaternion_log_a(self, r, t, Atan(r // self.w) // r)

DualQuaternion_log(self) ==
    DualQuaternion_log_rt(self,
        Sqrt((self.i ** self.i) ++ (self.j ** self.j) ++ (self.k ** self.k)),
        (self.i ** self.ie) ++ (self.j ** self.je) ++ (self.k ** self.ke))

DualQuaternion_powf(self, f) == DualQuaternion_exp(DualQuaternion_scale(DualQuaternion_log(self), f))

DualQuaternion_sclerp(self, other, alpha) ==
    DualQuaternion_mul(self,
        DualQuaternion_powf(DualQuaternion_mul(DualQuaternion_conj(self), other), alpha))

DualQuaternion_finite(a) == AllFinite({a.w, a.i, a.j, a.k, a.ie, a.je, a.ke, a.we})

(* PartialEq of DualQuaternion: component-wise ==, false on any NaN.        *)
DualQuaternion_eq(a, b) ==
    /\ ~(\E x \in {a.w, a.i, a.j, a.k, a.ie, a.je, a.ke, a.we} : IsNaN(x))
    /\ a = b

-----------------------------------------------------------------------------
(* The inputs of the calls.  Every input is a value the crate's callers can *)
(* build, and every elementary function the call evaluates on it is exact.  *)

(* The largest integer coordinate of a position, direction or translation.  *)
MaxCoord == 2

(* The largest |f| of a power and |alpha| of an interpolation.              *)
MaxPow == 2

V3(x, y, z) == <<I(x), I(y), I(z)>>

(* The angles 2nA + mP, whose half-angles nA + m(P/2) have rational sine    *)
(* and cosine.                                                              *)
AngleOf(n, m) == Angle_radians(Fin(AngleForm(2 * n, 2 * m)))

RotAngles ==
    {AngleOf(0, 0), AngleOf(1, 0), AngleOf(-1, 0), AngleOf(-1, 2),
     Angle_degrees(I(180)), Angle_degrees(I(360))}

Axes == {V3(1, 0, 0), V3(0, 0, MaxCoord), V3(0, 3, 4)}

Translations == {V3(0, 0, 0), V3(MaxCoord, 0, 0), V3(0, 1, -MaxCoord)}

Points == {V3(0, 0, 0), V3(1, MaxCoord, -1)}

(* A direction of length 1.                                                 *)
IsUnit(dir) == (dir[1] ** dir[1]) ++ (dir[2] ** dir[2]) ++ (dir[3] ** dir[3]) = One

(* A rigid motion as a caller composes it: rotate, then translate.          *)
Motion(angle, axis, t) ==
    DualQuaternion_mul(DualQuaternion_translator(t), DualQuaternion_rotor(angle, axis))

Motions == {Motion(angle, axis, t) : angle \in RotAngles, axis \in Axes, t \in Translations}

(* Motions about parallel axes: the rotation of conj(a) * b is again about  *)
(* the x axis, by 0, +-2A, 2P or 2P -+ 2A.                                  *)
CoaxialMotions ==
    {Motion(angle, V3(1, 0, 0), t) :
        angle \in {AngleOf(0, 0), AngleOf(1, 0), Angle_degrees(I(360))},
        t \in Translations}

Powers == {I(n) : n \in -MaxPow .. MaxPow}

(* Quaternions with w a multiple of L and an imaginary part whose length   *)
(* is a multiple of A or of P/2.                                            *)
ExpQuaternions ==
    {Quaternion(I(n) ** SymL, v[1], v[2], v[3]) :
        n \in -MaxPow .. MaxPow,
        v \in {<<Zero, Zero, Zero>>,
               <<SymA, Zero, Zero>>,
               <<Zero, Q(3, 5) ** SymA, Q(4, 5) ** SymA>>,
               <<Zero, Q(-7, 25) ** SymA, Q(24, 25) ** SymA>>,
               <<PI // Two, Zero, Zero>>,
               <<Zero, PI, Zero>>,
               <<Zero, Zero, SNeg(PI)>>}}

(* Quaternions whose norm is a power of 5.                                  *)
LogQuaternions ==
    {Quaternion(I(4), I(3), Zero, Zero),
     Quaternion(I(-4), Zero, I(3), Zero),
     Quaternion(Zero, I(5), Zero, Zero),
     Quaternion(Zero, Zero, I(3), I(4)),
     Quaternion(Zero, Zero, Zero, I(-1)),
     Quaternion(Zero, Q(3, 25), Zero, Q(-4, 25)),
     Quaternion(Zero, I(-25), Zero, Zero),
     Quaternion(Zero, Zero, Q(1, 5), Zero),
     Quaternion(Zero, I(15), Zero, I(20)),
     Quaternion(I(-20), I(15), Zero, Zero),
     Quaternion(I(20), Zero, Zero, I(-15)),
     Quaternion(I(5), Zero, Zero, Zero),
     Quaternion(Q(1, 25), Zero, Zero, Zero),
     Quaternion(I(-5), Zero, Zero, Zero),
     Quaternion(One, Zero, Zero, Zero)}

PowQuaternions ==
    {Quaternion(One, Zero, Zero, Zero),
     Quaternion(I(5), Zero, Zero, Zero),
     Quaternion(I(25), Zero, Zero, Zero),
     Quaternion(Q(1, 5), Zero, Zero, Zero),
     Quaternion(Q(1, 25), Zero, Zero, Zero),
     Quaternion(I(125), Zero, Zero, Zero),
     Quaternion(Zero, I(5), Zero, Zero),
     Quaternion(Zero, I(-25), Zero, Zero),
     Quaternion(Zero, Zero, I(3), I(4)),
     Quaternion(Zero, Zero, Zero, I(-1)),
     Quaternion(Zero, Q(3, 25), Zero, Q(-4, 25))}

(* The rotation parts of the motions, unit quaternions that are not        *)
(* rotors of the tables, and quaternions of norm 2, 3, 5 and 0.             *)
VectorQuaternions ==
    {DualQuaternion_real(m) : m \in Motions}
    \cup {Quaternion(Half, Half, Half, Half),
          Quaternion(Q(2, 3), Q(-1, 3), Zero, Q(2, 3)),
          Quaternion(Two, Zero, Zero, Zero),
          Quaternion(One, One, I(-1), One),
          Quaternion(One, Two, Two, Zero),
          Quaternion(Zero, I(3), I(4), Zero),
          Quaternion(Zero, Zero, Zero, Zero)}

(* The calls on an Angle go on from an angle of whole degrees up to MaxDeg  *)
(* whose two fields agree.  An angle whose fields disagree has a first      *)
(* call that returned such an angle, on a receiver whose fields agreed, so  *)
(* every way to reach one is among these calls.                             *)
MaxDeg == 360

Angle_receiver ==
    /\ op \in {"Angle_new", "Angle_derived", "Angle_scalar", "Angle_compare",
                "Angle_round", "Angle_correct"}
    /\ IsFin(out.deg) /\ PIsRat(out.deg.p)
    /\ PRatOf(out.deg.p)[2] = 1
    /\ IAbs(PRatOf(out.deg.p)[1]) <= MaxDeg
    /\ out.rad = out.deg ** (PI // I(180))

LinePositions == {V3(0, 0, 0), V3(0, 1, 0), V3(1, MaxCoord, -1)}

(* Pure generators: real vector parts zero, below the threshold of exp      *)
(* (2^-24 and 25 * 2^-28 against 2^-23), and well above it.                 *)
Generators ==
    {DualQuaternion(Zero, v[1], v[2], v[3], m[1], m[2], m[3], Zero) :
        v \in {<<Zero, Zero, Zero>>,
               <<Q(1, 4096), Zero, Zero>>,
               <<Q(3, 16384), Zero, Q(-4, 16384)>>,
               <<SymA, Zero, Zero>>,
               <<Zero, Q(3, 5) ** SymA, Q(4, 5) ** SymA>>,
               <<Zero, PI // Two, Zero>>},
        m \in Translations}

-----------------------------------------------------------------------------
(* The library keeps no state between calls: a call takes its arguments,    *)
(* computes, and returns.                                                   *)

Init == op = "idle" /\ args = <<>> /\ out = <<>>

(* q.exp()                                                                  *)
Call_Quaternion_exp ==
    /\ op = "idle"
    /\ \E q \in ExpQuaternions :
        /\ args' = [q |-> q]
        /\ out' = Quaternion_exp(q)
    /\ op' = "Quaternion_exp"

(* q.log()                                                                  *)
Call_Quaternion_log ==
    /\ op = "idle"
    /\ \E q \in LogQuaternions :
        /\ args' = [q |-> q]
        /\ out' = Quaternion_log(q)
    /\ op' = "Quaternion_log"

(* q.powf(f)                                                                *)
Call_Quaternion_powf ==
    /\ op = "idle"
    /\ \E q \in PowQuaternions, f \in Powers :
        /\ args' = [q |-> q, f |-> f]
        /\ out' = Quaternion_powf(q, f)
    /\ op' = "Quaternion_powf"

(* a * b                                                                    *)
Call_Quaternion_mul ==
    /\ op = "idle"
    /\ \E a \in LogQuaternions \cup {Quaternion(One, Two, I(-3), Half)} :
        \E b \in LogQuaternions \cup {Quaternion(One, Two, I(-3), Half), Quaternion_conj(a)} :
            /\ args' = [a |-> a, b |-> b]
            /\ out' = Quaternion_mul(a, b)
    /\ op' = "Quaternion_mul"

(* q.transform_vector(&v)                                                   *)
Call_Quaternion_transform_vector ==
    /\ op = "idle"
    /\ \E q \in VectorQuaternions, v \in Points \cup Axes :
        /\ args' = [q |-> q, v |-> v]
        /\ out' = Quaternion_transform_vector(q, v)
    /\ op' = "Quaternion_transform_vector"

(* q.transform_vector_scaled(&v)                                            *)
Call_Quaternion_transform_vector_scaled ==
    /\ op = "idle"
    /\ \E q \in VectorQuaternions, v \in Points \cup Axes :
        /\ args' = [q |-> q, v |-> v]
        /\ out' = Quaternion_transform_vector_scaled(q, v)
    /\ op' = "Quaternion_transform_vector_scaled"

(* DualQuaternion::line(&pos, &dir)                                         *)
Call_line ==
    /\ op = "idle"
    /\ \E pos \in LinePositions,
          dir \in {V3(1, 0, 0), V3(MaxCoord, 0, 0), V3(0, 0, 1), V3(0, 3, 4)} :
        /\ args' = [pos |-> pos, dir |-> dir]
        /\ out' = DualQuaternion_line(pos, dir)
    /\ op' = "line"

(* DualQuaternion::screw(&DualQuaternion::line(&pos, &dir), angle, distance), *)
(* dir a unit vector, so that the line is the one the caller means.         *)
Call_screw ==
    /\ op = "idle"
    /\ \E pos \in LinePositions,
          dir \in {V3(1, 0, 0), V3(0, 0, 1)},
          angle \in {AngleOf(0, 0), AngleOf(1, 0), AngleOf(-1, 0), Angle_degrees(I(180))},
          distance \in {Zero, I(MaxCoord), I(-1)} :
        /\ args' = [pos |-> pos, dir |-> dir, angle |-> angle, distance |-> distance]
        /\ out' = DualQuaternion_screw(DualQuaternion_line(pos, dir), angle, distance)
    /\ op' = "screw"

(* g.exp()                                                                  *)
Call_exp ==
    /\ op = "idle"
    /\ \E g \in Generators :
        /\ args' = [g |-> g]
        /\ out' = DualQuaternion_exp(g)
    /\ op' = "exp"

(* a.log()                                                                  *)
Call_log ==
    /\ op = "idle"
    /\ \E a \in Motions :
        /\ args' = [a |-> a]
        /\ out' = DualQuaternion_log(a)
    /\ op' = "log"

(* a.sclerp(&b, alpha)                                                      *)
Call_sclerp ==
    /\ op = "idle"
    /\ \E a \in CoaxialMotions, b \in CoaxialMotions, alpha \in Powers :
        /\ args' = [a |-> a, b |-> b, alpha |-> alpha]
        /\ out' = DualQuaternion_sclerp(a, b, alpha)
    /\ op' = "sclerp"

(* (a * b).transform_point(&p)                                              *)
Call_transform_point ==
    /\ op = "idle"
    /\ \E a, b \in Motions, p \in Points :
        /\ args' = [a |-> a, b |-> b, p |-> p]
        /\ out' = DualQuaternion_transform_point(DualQuaternion_mul(a, b), p)
    /\ op' = "transform_point"

(* m * DualQuaternion::point(&p) * m.nconj()                                *)
Call_sandwich_point ==
    /\ op = "idle"
    /\ \E m \in Motions, p \in Points :
        /\ args' = [m |-> m, p |-> p]
        /\ out' = DualQuaternion_mul(DualQuaternion_mul(m, DualQuaternion_point(p)),
                                     DualQuaternion_nconj(m))
    /\ op' = "sandwich_point"

(* m.transform_line(&DualQuaternion::line(&pos, &dir))                      *)
Call_transform_line ==
    /\ op = "idle"
    /\ \E m \in Motions \cup {DualQuaternion_ONE}, pos \in LinePositions,
          dir \in {V3(1, 0, 0), V3(MaxCoord, 0, 0), V3(0, 0, 1), V3(0, 3, 4),
                   <<Zero, Q(3, 5), Q(4, 5)>>} :
        /\ args' = [m |-> m, pos |-> pos, dir |-> dir, line |-> DualQuaternion_line(pos, dir)]
        /\ out' = DualQuaternion_transform_line(m, DualQuaternion_line(pos, dir))
    /\ op' = "transform_line"

(* m * line * m.conj()                                                      *)
Call_sandwich_line ==
    /\ op = "idle"
    /\ \E m \in Motions, pos \in LinePositions,
          dir \in {V3(1, 0, 0), V3(MaxCoord, 0, 0), V3(0, 0, 1), V3(0, 3, 4)} :
        /\ args' = [m |-> m, line |-> DualQuaternion_line(pos, dir)]
        /\ out' = DualQuaternion_mul(DualQuaternion_mul(m, DualQuaternion_line(pos, dir)),
                                     DualQuaternion_conj(m))
    /\ op' = "sandwich_line"

(* a.nconj()                                                                *)
Call_nconj ==
    /\ op = "idle"
    /\ \E a \in Motions \cup Generators
                 \cup {DualQuaternion(One, Two, I(-3), Half, I(5), I(-1), Q(3, 4), I(-7))} :
        /\ args' = [a |-> a]
        /\ out' = DualQuaternion_nconj(a)
    /\ op' = "nconj"

(* (translator(&t) * rotor(angle, &axis)).transform_vector3(&v)             *)
Call_transform_vector3 ==
    /\ op = "idle"
    /\ \E angle \in RotAngles, axis \in Axes, t \in Translations, v \in Points \cup Axes :
        /\ args' = [angle |-> angle, axis |-> axis, t |-> t, v |-> v]
        /\ out' = DualQuaternion_transform_vector3(Motion(angle, axis, t), v)
    /\ op' = "transform_vector3"

(* DualQuaternion::translator(&t), translator(&t).transform_point(&p) and   *)
(* translator(&s) * translator(&t)                                          *)
Call_translator ==
    /\ op = "idle"
    /\ \/ \E t \in Translations :
            /\ args' = [f |-> "new", t |-> t]
            /\ out' = DualQuaternion_translator(t)
       \/ \E t \in Translations, p \in Points \cup Axes :
            /\ args' = [f |-> "transform_point", t |-> t, p |-> p]
            /\ out' = DualQuaternion_transform_point(DualQuaternion_translator(t), p)
       \/ \E s, t \in Translations :
            /\ args' = [f |-> "mul", s |-> s, t |-> t]
            /\ out' = DualQuaternion_mul(DualQuaternion_translator(s),
                                         DualQuaternion_translator(t))
    /\ op' = "translator"

(* Angle::radians(x), Angle::degrees(x), Angle::new(x) and the constants.   *)
Call_Angle_new ==
    /\ op = "idle"
    /\ \E a \in {Angle_radians(x) : x \in {PI, SNeg(PI // Two), Q(3, 2) ** PI}}
               \cup {Angle_degrees(x) : x \in {I(-20), I(-360), I(190), I(10)}}
               \cup {Angle_new(x) : x \in {Zero, PI // I(18)}}
               \cup {Angle_FULL, Angle_HALF, Angle_QUARTER, Angle_EIGTH, Angle_ZERO} :
        /\ args' = <<>>
        /\ out' = a
    /\ op' = "Angle_new"

(* a + b, a - b, -a, a % x, and a += b, a -= b, a %= x                      *)
Call_Angle_derived ==
    /\ Angle_receiver
    /\ \E c \in ({"add", "sub"} \X {Angle_QUARTER, Angle_degrees(I(-20))})
                 \cup ({"neg"} \X {Angle_ZERO})
                 \cup ({"rem"} \X {I(100), I(180), I(360)}) :
        /\ args' = [f |-> c[1], self |-> out, rhs |-> c[2]]
        /\ out' = CASE c[1] = "add" -> Angle_add(out, c[2])
                     [] c[1] = "sub" -> Angle_sub(out, c[2])
                     [] c[1] = "neg" -> Angle_neg(out)
                     [] c[1] = "rem" -> Angle_rem(out, c[2])
    /\ op' = "Angle_derived"

(* a * x, x * a, a / x, and a *= x, a /= x                                  *)
Call_Angle_scalar ==
    /\ Angle_receiver
    /\ \E f \in {"mul", "div"}, x \in {Two, I(-1), I(3)} :
        /\ args' = [f |-> f, self |-> out, x |-> x]
        /\ out' = IF f = "mul" THEN Angle_mul(out, x) ELSE Angle_div(out, x)
    /\ op' = "Angle_scalar"

(* a.min(b), a.max(b), a.clamp(min, max), a.abs()                           *)
Call_Angle_compare ==
    /\ Angle_receiver
    /\ \E c \in ({"min", "max", "clamp"} \X {Angle_QUARTER, Angle_degrees(I(-20))})
                 \cup ({"abs"} \X {Angle_ZERO}) :
        /\ args' = [f |-> c[1], self |-> out, angle |-> c[2]]
        /\ out' = CASE c[1] = "min"   -> Angle_min(out, c[2])
                     [] c[1] = "max"   -> Angle_max(out, c[2])
                     [] c[1] = "clamp" -> Angle_clamp(out, Angle_neg(Angle_abs(c[2])), Angle_abs(c[2]))
                     [] c[1] = "abs"   -> Angle_abs(out)
    /\ op' = "Angle_compare"

(* a.floor(b), a.ceil(b), a.round(b), b not zero                            *)
Call_Angle_round ==
    /\ Angle_receiver
    /\ \E f \in {"floor", "ceil", "round"},
          angle \in {Angle_QUARTER, Angle_degrees(I(-20)), Angle_degrees(I(40))} :
        /\ args' = [f |-> f, self |-> out, angle |-> angle]
        /\ out' = CASE f = "floor" -> Angle_floor(out, angle)
                     [] f = "ceil"  -> Angle_ceil(out, angle)
                     [] f = "round" -> Angle_round(out, angle)
    /\ op' = "Angle_round"

(* a.corrected(), a.sign_corrected(), a.range_corrected()                   *)
Call_Angle_correct ==
    /\ Angle_receiver
    /\ \E f \in {"corrected", "sign_corrected", "range_corrected"} :
        /\ args' = [f |-> f, self |-> out]
        /\ out' = CASE f = "corrected"       -> Angle_corrected(out)
                     [] f = "sign_corrected"  -> Angle_sign_corrected(out)
                     [] f = "range_corrected" -> Angle_range_corrected(out)
    /\ op' = "Angle_correct"

(* z.powi(i)                                                                *)
Call_DualNumber_powi ==
    /\ op = "idle"
    /\ \E re \in {One, Two, I(-3), Half}, du \in {Zero, One, I(-2)},
          i \in -MaxPow - 1 .. MaxPow + 1 :
        /\ args' = [z |-> DualNumber(re, du), i |-> i]
        /\ out' = DualNumber_powi(DualNumber(re, du), i)
    /\ op' = "DualNumber_powi"

(* z.sqrt()                                                                 *)
Call_Complex_sqrt ==
    /\ op = "idle"
    /\ \E z \in {Complex(One, Zero), Complex(I(4), Zero), Complex(I(-5), Zero),
                  Complex(Zero, I(5)), Complex(Zero, I(-1)),
                  Complex(I(3), I(4)), Complex(I(-3), I(4)), Complex(I(3), I(-4)),
                  Complex(I(-4), I(-3)), Complex(I(-7), I(24))} :
        /\ args' = [z |-> z]
        /\ out' = Complex_sqrt(z)
    /\ op' = "Complex_sqrt"

(* a *= b, for the three receivers with a hand-written MulAssign; out is    *)
(* the receiver after the assignment.                                       *)
Call_mul_assign ==
    /\ op = "idle"
    /\ \/ \E a \in {Complex(One, Two), Complex(I(3), I(4)), Complex(Zero, One)},
              b \in {Complex(Two, Zero), Complex(Zero, One), Complex(One, One)} :
            /\ args' = [t |-> "Complex", a |-> a, b |-> b]
            /\ out' = Complex_mul_assign(a, b)
       \/ \E a \in {DualNumber(One, Two), DualNumber(Two, One), DualNumber(I(-3), Zero)},
              b \in {DualNumber(One, One), DualNumber(Two, Zero), DualNumber(Half, I(-2))} :
            /\ args' = [t |-> "DualNumber", a |-> a, b |-> b]
            /\ out' = DualNumber_mul_assign(a, b)
       \/ \E a \in {Quaternion(One, Two, I(3), I(4)), Quaternion(Zero, One, Zero, Zero)},
              b \in {Complex(Two, Zero), Complex(Zero, One), Complex(One, One)} :
            /\ args' = [t |-> "Quaternion", a |-> a, b |-> b]
            /\ out' = Quaternion_mul_assign_Complex(a, b)
    /\ op' = "mul_assign"

(* z.cos()                                                                  *)
Call_Complex_cos ==
    /\ op = "idle"
    /\ \E re \in {Zero, SymA, SNeg(SymA), Two ** SymA, PI // Two, PI},
          im \in {Zero, SymL, SNeg(SymL)} :
        /\ args' = [z |-> Complex(re, im)]
        /\ out' = Complex_cos(Complex(re, im))
    /\ op' = "Complex_cos"

(* The call returns: the library keeps nothing.                             *)
Return ==
    /\ op # "idle"
    /\ op' = "idle"
    /\ args' = <<>>
    /\ out' = <<>>

(* The calls on Quaternion.                                                 *)
NextQ ==
    \/ Call_Quaternion_exp
    \/ Call_Quaternion_log
    \/ Call_Quaternion_powf
    \/ Call_Quaternion_mul
    \/ Call_Quaternion_transform_vector
    \/ Call_Quaternion_transform_vector_scaled
    \/ Return

SpecQ == Init /\ [][NextQ]_vars

(* The calls that build a line, a screw, and the exponential under it.      *)
NextScrew ==
    \/ Call_line
    \/ Call_screw
    \/ Call_exp
    \/ Return

SpecScrew == Init /\ [][NextScrew]_vars

(* The calls through the logarithm.                                         *)
NextLog ==
    \/ Call_log
    \/ Call_sclerp
    \/ Return

SpecLog == Init /\ [][NextLog]_vars

(* The calls that move a point or a direction.                              *)
NextPoint ==
    \/ Call_transform_point
    \/ Call_sandwich_point
    \/ Call_transform_vector3
    \/ Call_translator
    \/ Return

SpecPoint == Init /\ [][NextPoint]_vars

(* The calls that move a line, and the conjugate that closes the sandwich.  *)
NextLine ==
    \/ Call_transform_line
    \/ Call_sandwich_line
    \/ Call_nconj
    \/ Return

SpecLine == Init /\ [][NextLine]_vars

(* The calls on Angle: an angle is built, and calls follow on the angle     *)
(* the last one returned.                                                   *)
NextAngle ==
    \/ Call_Angle_new
    \/ Call_Angle_derived
    \/ Call_Angle_scalar
    \/ Call_Angle_compare
    \/ Call_Angle_round
    \/ Call_Angle_correct
    \/ Return

SpecAngle == Init /\ [][NextAngle]_vars

(* The calls on dual numbers and complex numbers.                           *)
NextRing ==
    \/ Call_DualNumber_powi
    \/ Call_Complex_sqrt
    \/ Call_mul_assign
    \/ Call_Complex_cos
    \/ Return

SpecRing == Init /\ [][NextRing]_vars

(* Every call of the model.  A call's state (op, args, out) is reached in   *)
(* one step from idle and is the same in Spec and in the specification of   *)
(* its family, so a property of the states of one operation holds in both.  *)
Next ==
    \/ NextQ
    \/ NextScrew
    \/ NextLog
    \/ NextPoint
    \/ NextLine
    \/ NextAngle
    \/ NextRing

Spec == Init /\ [][Next]_vars

-----------------------------------------------------------------------------
(* C1.  sclerp(a, b, 0) == a and sclerp(a, b, 1) == b with every component  *)
(* finite, for all motions a and b: also a == b, a relative motion          *)
(* conj(a) * b that is a pure translation, or one with negative w.          *)
C1_sclerp_endpoints ==
    op = "sclerp" /\ args.alpha \in {Zero, One} =>
        /\ DualQuaternion_finite(out)
        /\ DualQuaternion_eq(out, IF args.alpha = Zero THEN args.a ELSE args.b)

(* C2.  exp of a quaternion with zero imaginary part is (exp(w), 0, 0, 0),  *)
(* all components finite: the division by |v| = 0 is not performed.         *)
C2_exp_zero_imaginary ==
    op = "Quaternion_exp" /\ <<args.q.i, args.q.j, args.q.k>> = <<Zero, Zero, Zero>> =>
        /\ Quaternion_finite(out)
        /\ out = Quaternion(Exp(args.q.w), Zero, Zero, Zero)

(* C3.  exp(log(q)) == q for every q with norm(q) > 0, and log(q) is finite *)
(* for every q with a non-zero imaginary part.                              *)
C3_exp_log_roundtrip ==
    op = "Quaternion_log" /\ SLess(Zero, Quaternion_norm(args.q)) =>
        /\ Quaternion_eq(Quaternion_exp(out), args.q)
        /\ (<<args.q.i, args.q.j, args.q.k>> # <<Zero, Zero, Zero>> => Quaternion_finite(out))

(* C4.  powf of a pure real scalar (w, 0, 0, 0), w > 0, is the finite       *)
(* quaternion (w^f, 0, 0, 0), w^f = exp(f ln w).                            *)
C4_powf_pure_real ==
    (/\ op = "Quaternion_powf"
     /\ <<args.q.i, args.q.j, args.q.k>> = <<Zero, Zero, Zero>>
     /\ SLess(Zero, args.q.w)) =>
        /\ Quaternion_finite(out)
        /\ out = Quaternion(Exp(args.f ** Ln(args.q.w)), Zero, Zero, Zero)

(* C5.  screw(L, angle, distance) is the translation by distance along the  *)
(* direction of L composed with the rotation by angle about L, the latter   *)
(* being the rotor about the direction carried to a point of L; with        *)
(* angle = 0 it is translator(distance * dir).                              *)
C5_screw_is_translator_times_rotor ==
    op = "screw" =>
        DualQuaternion_eq(out,
            DualQuaternion_mul(
                DualQuaternion_translator(<<args.distance ** args.dir[1],
                                            args.distance ** args.dir[2],
                                            args.distance ** args.dir[3]>>),
                DualQuaternion_mul(
                    DualQuaternion_mul(DualQuaternion_translator(args.pos),
                                       DualQuaternion_rotor(args.angle, args.dir)),
                    DualQuaternion_translator(<<SNeg(args.pos[1]), SNeg(args.pos[2]),
                                                SNeg(args.pos[3])>>))))

(* C6.  line(pos, dir) has w = we = 0, (i, j, k) = dir / |dir| and moment   *)
(* (ie, je, ke) = normalize(dir) x pos, and does not depend on the length   *)
(* of dir: line(pos, 2 dir) == line(pos, dir).                              *)
C6_line_moment ==
    op = "line" =>
        /\ out.w = Zero /\ out.we = Zero
        /\ <<out.i, out.j, out.k>> =
                Vector3_into(Vector3_normalize(Vector3(args.dir[1], args.dir[2], args.dir[3])))
        /\ <<out.ie, out.je, out.ke>> =
                Vector3_into(Vector3_cross(
                    Vector3_normalize(Vector3(args.dir[1], args.dir[2], args.dir[3])),
                    Vector3(args.pos[1], args.pos[2], args.pos[3])))
        /\ DualQuaternion_eq(out,
                DualQuaternion_line(args.pos,
                    <<Two ** args.dir[1], Two ** args.dir[2], Two ** args.dir[3]>>))

(* C7.  log(a) is finite and exp(log(a)) == a for every normalized motion   *)
(* a with w != 0, the identity and the pure translations included.          *)
C7_log_inverts_exp ==
    op = "log" /\ args.a.w # Zero =>
        /\ DualQuaternion_finite(out)
        /\ DualQuaternion_eq(DualQuaternion_exp(out), args.a)

(* C8.  exp of a pure generator whose real vector part has magnitude zero   *)
(* or below the zero-rotation threshold (r * r < EPSILON) is exactly the    *)
(* identity motion, every component finite, whatever its dual vector part.  *)
C8_exp_small_is_identity ==
    (/\ op = "exp"
     /\ args.g.w = Zero /\ args.g.we = Zero
     /\ SLess((args.g.i ** args.g.i) ++ (args.g.j ** args.g.j) ++ (args.g.k ** args.g.k),
              EPSILON)) =>
        /\ out = DualQuaternion_ONE
        /\ DualQuaternion_finite(out)

(* A generator with a non-zero real vector part below the threshold and a   *)
(* non-zero dual vector part has been exponentiated to the identity.        *)
C8_witness ==
    /\ op = "exp"
    /\ <<args.g.i, args.g.j, args.g.k>> # <<Zero, Zero, Zero>>
    /\ <<args.g.ie, args.g.je, args.g.ke>> # <<Zero, Zero, Zero>>
    /\ SLess((args.g.i ** args.g.i) ++ (args.g.j ** args.g.j) ++ (args.g.k ** args.g.k),
             EPSILON)
    /\ out = DualQuaternion_ONE

(* C9.  transform_point(a * b, p) == transform_point(a, transform_point(b,  *)
(* p)) for all normalized motions a, b and every point p.                   *)
C9_transform_by_product ==
    op = "transform_point" =>
        /\ AllFinite({out[1], out[2], out[3]})
        /\ out = DualQuaternion_transform_point(args.a,
                    DualQuaternion_transform_point(args.b, args.p))

(* Two motions that do not commute, each a rotation with a translation,     *)
(* have moved a point away from where it was.                               *)
C9_witness ==
    /\ op = "transform_point"
    /\ DualQuaternion_mul(args.a, args.b) # DualQuaternion_mul(args.b, args.a)
    /\ \A m \in {args.a, args.b} :
            /\ <<m.i, m.j, m.k>> # <<Zero, Zero, Zero>>
            /\ <<m.ie, m.je, m.ke>> # <<Zero, Zero, Zero>>
    /\ args.p # <<Zero, Zero, Zero>>
    /\ out # args.p

(* C10.  M * point(p) * nconj(M), computed with the dual-quaternion         *)
(* product, equals point(transform_point(M, p)) for every normalized        *)
(* motion M and every point p.                                              *)
C10_sandwich_is_transform_point ==
    op = "sandwich_point" =>
        DualQuaternion_eq(out,
            DualQuaternion_point(DualQuaternion_transform_point(args.m, args.p)))

(* A motion with rotation and translation has carried a point, other than   *)
(* the origin, to another point by the sandwich.                            *)
C10_witness ==
    /\ op = "sandwich_point"
    /\ <<args.m.i, args.m.j, args.m.k>> # <<Zero, Zero, Zero>>
    /\ <<args.m.ie, args.m.je, args.m.ke>> # <<Zero, Zero, Zero>>
    /\ args.p # <<Zero, Zero, Zero>>
    /\ out # DualQuaternion_point(args.p)


(* C11.  For a normalized motion m and a line (w = we = 0), the sandwich    *)
(* m * line * conj(m) in the dual-quaternion product is the line            *)
(* m.transform_line(&line) in all eight components, and its w and we are 0. *)
C11_sandwich_is_transform_line ==
    op = "sandwich_line" =>
        /\ out = DualQuaternion_transform_line(args.m, args.line)
        /\ out.w = Zero
        /\ out.we = Zero

C11_witness ==
    /\ op = "sandwich_line"
    /\ args.m.k # Zero
    /\ args.m.ie # Zero
    /\ args.line.ke # Zero
    /\ out # args.line

(* C12.  For a line with a direction and a normalized motion whose dual     *)
(* part is not zero, m * line * conj(m) differs from m * line * nconj(m)    *)
(* in at least one component.                                               *)
C12_conj_and_nconj_sandwiches_differ ==
    (/\ op = "sandwich_line"
     /\ <<args.m.ie, args.m.je, args.m.ke, args.m.we>> # <<Zero, Zero, Zero, Zero>>)
        => out # DualQuaternion_mul(DualQuaternion_mul(args.m, args.line),
                                    DualQuaternion_nconj(args.m))

C12_witness ==
    /\ op = "sandwich_line"
    /\ args.m.ie # Zero
    /\ out.w = Zero
    /\ DualQuaternion_mul(DualQuaternion_mul(args.m, args.line),
                          DualQuaternion_nconj(args.m)).we # Zero

(* C13.  a.nconj() is iconj(conj(a)) and conj(iconj(a)): it negates i, j,   *)
(* k and we, and keeps w, ie, je and ke.                                    *)
C13_nconj_is_iconj_of_conj ==
    op = "nconj" =>
        /\ out = DualQuaternion_iconj(DualQuaternion_conj(args.a))
        /\ out = DualQuaternion_conj(DualQuaternion_iconj(args.a))
        /\ <<out.i, out.j, out.k, out.we>>
             = <<SNeg(args.a.i), SNeg(args.a.j), SNeg(args.a.k), SNeg(args.a.we)>>
        /\ <<out.w, out.ie, out.je, out.ke>>
             = <<args.a.w, args.a.ie, args.a.je, args.a.ke>>

C13_witness ==
    /\ op = "nconj"
    /\ \A c \in {"w", "i", "j", "k", "ie", "je", "ke", "we"} : args.a[c] # Zero
    /\ out # args.a

(* C14.  DualQuaternion::ONE.transform_line(&line(pos, dir)) is the same    *)
(* line in all eight components.                                            *)
C14_identity_keeps_line ==
    (op = "transform_line" /\ args.m = DualQuaternion_ONE) => out = args.line

C14_witness ==
    /\ op = "transform_line"
    /\ args.m = DualQuaternion_ONE
    /\ args.line.j # Zero
    /\ args.line.ie # Zero
    /\ out = args.line

(* C15.  a * conj(a) has i = j = k = 0 and w = w^2 + i^2 + j^2 + k^2; and   *)
(* the product is not commutative: a * b == b * a only when the cross       *)
(* product of the two vector parts is zero.                                 *)
C15_product_with_conj_is_norm_squared ==
    op = "Quaternion_mul" =>
        /\ args.b = Quaternion_conj(args.a) =>
               out = Quaternion((args.a.w ** args.a.w) ++ (args.a.i ** args.a.i)
                                   ++ (args.a.j ** args.a.j) ++ (args.a.k ** args.a.k),
                                Zero, Zero, Zero)
        /\ (out = Quaternion_mul(args.b, args.a))
             <=> (Vector3_cross(Vector3(args.a.i, args.a.j, args.a.k),
                                Vector3(args.b.i, args.b.j, args.b.k))
                     = Vector3(Zero, Zero, Zero))

C15_witness ==
    /\ op = "Quaternion_mul"
    /\ args.b = Quaternion_conj(args.a)
    /\ \A c \in {"w", "i", "j", "k"} : args.a[c] # Zero
    /\ out.w = Q(57, 4)
    /\ Quaternion_mul(args.a, Quaternion(Zero, Zero, One, Zero))
         # Quaternion_mul(Quaternion(Zero, Zero, One, Zero), args.a)

(* C16.  For a unit quaternion q, q.transform_vector(&v) has the squared    *)
(* norm of v.                                                               *)
C16_transform_vector_keeps_length ==
    (/\ op = "Quaternion_transform_vector"
     /\ (args.q.w ** args.q.w) ++ (args.q.i ** args.q.i)
          ++ (args.q.j ** args.q.j) ++ (args.q.k ** args.q.k) = One)
        => (out[1] ** out[1]) ++ (out[2] ** out[2]) ++ (out[3] ** out[3])
             = (args.v[1] ** args.v[1]) ++ (args.v[2] ** args.v[2]) ++ (args.v[3] ** args.v[3])

C16_witness ==
    /\ op = "Quaternion_transform_vector"
    /\ (args.q.w ** args.q.w) ++ (args.q.i ** args.q.i)
         ++ (args.q.j ** args.q.j) ++ (args.q.k ** args.q.k) = One
    /\ \A c \in {"w", "i", "k"} : args.q[c] # Zero
    /\ out # args.v
    /\ \A n \in 1 .. 3 : out[n] # Zero

(* C17.  q.transform_vector_scaled(&v) is the vector part of                *)
(* q * (0, v) * conj(q), and it is q.transform_vector(&v) exactly when      *)
(* norm(q) = 1 or v is the zero vector.                                     *)
C17_scaled_is_sandwich ==
    op = "Quaternion_transform_vector_scaled" =>
        /\ Quaternion(Zero, out[1], out[2], out[3])
             = Quaternion_mul(
                   Quaternion_mul(args.q, Quaternion(Zero, args.v[1], args.v[2], args.v[3])),
                   Quaternion_conj(args.q))
        /\ (out = Quaternion_transform_vector(args.q, args.v))
             <=> (Quaternion_norm(args.q) = One \/ args.v = V3(0, 0, 0))

C17_witness ==
    /\ op = "Quaternion_transform_vector_scaled"
    /\ Quaternion_norm(args.q) = Two
    /\ \A c \in {"w", "i", "j", "k"} : args.q[c] # Zero
    /\ args.v # V3(0, 0, 0)
    /\ out # Quaternion_transform_vector(args.q, args.v)

(* C17 as stated: for every q and v the two transforms coincide exactly     *)
(* when norm(q) = 1.                                                        *)
C17_as_stated ==
    op = "Quaternion_transform_vector_scaled" =>
        /\ Quaternion(Zero, out[1], out[2], out[3])
             = Quaternion_mul(
                   Quaternion_mul(args.q, Quaternion(Zero, args.v[1], args.v[2], args.v[3])),
                   Quaternion_conj(args.q))
        /\ (out = Quaternion_transform_vector(args.q, args.v))
             <=> (Quaternion_norm(args.q) = One)

(* C18.  A motion built on rotor(angle, axis) turns a direction by angle    *)
(* about axis, counter-clockwise: about the z axis (1, 0, 0) goes to        *)
(* (cos angle, sin angle, 0); and the result is that of the rotor alone,    *)
(* whatever the dual components ie, je, ke, we of the motion.               *)
C18_rotor_turns_counter_clockwise ==
    op = "transform_vector3" =>
        /\ out = DualQuaternion_transform_vector3(
                     DualQuaternion_rotor(args.angle, args.axis), args.v)
        /\ (args.axis = V3(0, 0, MaxCoord) /\ args.v = V3(1, 0, 0))
             => out = <<Angle_sin_cos(args.angle)[2], Angle_sin_cos(args.angle)[1], Zero>>

C18_witness ==
    /\ op = "transform_vector3"
    /\ args.axis = V3(0, 0, MaxCoord)
    /\ args.v = V3(1, 0, 0)
    /\ args.t # V3(0, 0, 0)
    /\ Motion(args.angle, args.axis, args.t).ie # Zero
    /\ out = <<Q(-7, 25), Q(24, 25), Zero>>

(* C19.  Every Angle that a sequence of constructors and operations         *)
(* returns has deg == rad * 180 / pi.                                       *)
C19_deg_is_rad_in_degrees ==
    op \in {"Angle_new", "Angle_derived", "Angle_scalar", "Angle_compare",
            "Angle_round", "Angle_correct"}
        => /\ ~IsNaN(out.deg)
           /\ out.deg = (out.rad ** I(180)) // PI

(* C20.  a.corrected() has deg() in [0, 360), and deg() differs from        *)
(* a.deg() by a multiple of 360.                                            *)
C20_corrected_in_first_turn ==
    (op = "Angle_correct" /\ args.f = "corrected") =>
        /\ ~SLess(out.deg, Zero)
        /\ SLess(out.deg, I(360))
        /\ SRem(out.deg -- args.self.deg, I(360)) = Zero

(* C21.  For a positive step s, a.floor(s) and a.ceil(s) are integer        *)
(* multiples of s with a.floor(s) <= a <= a.ceil(s), each less than one     *)
(* step away from a.                                                        *)
C21_floor_and_ceil_enclose ==
    (/\ op = "Angle_round"
     /\ args.f \in {"floor", "ceil"}
     /\ SLess(Zero, args.angle.deg))
        => /\ SRem(out.deg // args.angle.deg, One) = Zero
           /\ out = Angle_mul(args.angle, out.deg // args.angle.deg)
           /\ args.f = "floor" =>
                  /\ ~SLess(args.self.deg, out.deg)
                  /\ SLess(args.self.deg -- args.angle.deg, out.deg)
           /\ args.f = "ceil" =>
                  /\ ~SLess(out.deg, args.self.deg)
                  /\ SLess(out.deg, args.self.deg ++ args.angle.deg)

(* C22.  For z = a + bE with a # 0, z.powi(n) is a^n + n*a^(n-1)*b E for    *)
(* every integer n: 1 + 0E for n = 0, and z.powi(n) * z.powi(-n) == 1.      *)
C22_powi_closed_form ==
    op = "DualNumber_powi" =>
        /\ args.i >= 0 =>
               out = DualNumber(SPowi(args.z.re, args.i),
                                IF args.i = 0 THEN Zero
                                ELSE (I(args.i) ** SPowi(args.z.re, args.i - 1)) ** args.z.du)
        /\ args.i < 0 =>
               out = DualNumber(One // SPowi(args.z.re, -args.i),
                                (I(args.i) ** args.z.du) // SPowi(args.z.re, 1 - args.i))
        /\ DualNumber_mul(out, DualNumber_powi(args.z, -args.i)) = DualNumber(One, Zero)

(* C23.  For z # 0, z.sqrt() is a square root of z: sqrt(z) * sqrt(z) == z, *)
(* and its modulus squared is the modulus of z; sqrt(4 + 0i) = 2 + 0i.      *)
C23_sqrt_squares_to_z ==
    op = "Complex_sqrt" =>
        /\ Complex_mul(out, out) = args.z
        /\ Complex_norm(out) ** Complex_norm(out) = Complex_norm(args.z)
        /\ args.z = Complex(I(4), Zero) => out = Complex(Two, Zero)

(* C24.  After a *= b the receiver equals a * b computed from the operands  *)
(* as they were before the assignment, for Complex *= Complex, DualNumber   *)
(* *= DualNumber and Quaternion *= Complex.                                 *)
C24_mul_assign_is_mul ==
    op = "mul_assign" =>
        out = CASE args.t = "Complex"    -> Complex_mul(args.a, args.b)
                [] args.t = "DualNumber" -> DualNumber_mul(args.a, args.b)
                [] args.t = "Quaternion" -> Quaternion_mul_Complex(args.a, args.b)

(* C27.  Complex::cos extends the real cosine: for im = 0 the result is     *)
(* (cos(re), 0), so cos(0 + 0i) == 1 + 0i, and sin(z)^2 + cos(z)^2 == 1.    *)
C27_cos_extends_real_cosine ==
    op = "Complex_cos" =>
        /\ args.z.im = Zero => out = Complex(SinCos(args.z.re)[2], Zero)
        /\ args.z = Complex(Zero, Zero) => out = Complex(One, Zero)
        /\ Complex_add(Complex_mul(Complex_sin(args.z), Complex_sin(args.z)),
                       Complex_mul(out, out)) = Complex(One, Zero)

(* C25.  For a normalized motion M, a position pos and a unit direction     *)
(* dir, transforming the line through pos along dir gives the line through  *)
(* the transformed point along the transformed direction:                   *)
(* M.transform_line(line(pos, dir)) ==                                      *)
(*     line(M.transform_point(pos), M.transform_vector3(dir)).              *)
C25_transform_line_by_parts ==
    (op = "transform_line" /\ IsUnit(args.dir)) =>
        out = DualQuaternion_line(DualQuaternion_transform_point(args.m, args.pos),
                                  DualQuaternion_transform_vector3(args.m, args.dir))

C25_witness ==
    /\ op = "transform_line"
    /\ args.dir = <<Zero, Q(3, 5), Q(4, 5)>>
    /\ args.pos = V3(1, MaxCoord, -1)
    /\ args.m.k # Zero /\ args.m.w # Zero /\ args.m.ie # Zero
    /\ <<out.i, out.j, out.k>> # args.dir
    /\ out = DualQuaternion_line(DualQuaternion_transform_point(args.m, args.pos),
                                 DualQuaternion_transform_vector3(args.m, args.dir))

(* C26.  translator(t) has w = 1, real vector part 0, we = 0 and dual       *)
(* vector part t / 2; it moves a point p to p + t; and translators compose  *)
(* by adding: translator(s) * translator(t) == translator(s + t).           *)
C26_translator_adds_translation ==
    op = "translator" =>
        /\ args.f = "new" =>
              /\ out.w = One /\ out.we = Zero
              /\ <<out.i, out.j, out.k>> = <<Zero, Zero, Zero>>
              /\ <<out.ie ++ out.ie, out.je ++ out.je, out.ke ++ out.ke>> = args.t
        /\ args.f = "transform_point" =>
              out = <<args.p[1] ++ args.t[1], args.p[2] ++ args.t[2], args.p[3] ++ args.t[3]>>
        /\ args.f = "mul" =>
              out = DualQuaternion_translator(
                        <<args.s[1] ++ args.t[1], args.s[2] ++ args.t[2], args.s[3] ++ args.t[3]>>)

C26_witness ==
    /\ op = "translator" /\ args.f = "transform_point"
    /\ args.t = V3(0, 1, -MaxCoord) /\ args.p = V3(1, MaxCoord, -1)
    /\ out = V3(1, MaxCoord + 1, -MaxCoord - 1)

=============================================================================
